---- MODULE Spec2Model ----
(***************************************************************************)
(* A model of src/server/ngram.py: the NgramModel class, a chain of n-gram *)
(* models of decreasing order with constant-weight backoff.                *)
(*                                                                         *)
(* Python values are represented as follows.                               *)
(*   - tokens are strings; tuples and lists of tokens are sequences;       *)
(*   - a float is an exact fraction <<num, den>>: rounding is not          *)
(*     modelled;                                                           *)
(*   - a padding flag is "True" or "False" (the two bool values) or "1"    *)
(*     (a truthy value that is not a bool);                                *)
(*   - the training argument is a record [kind, toks, sents]: None, a flat *)
(*     list of tokens (toks), or a list of sentences (sents);              *)
(*   - a raised exception is a status string other than "ok".              *)
(*                                                                         *)
(* Two things the class leaves to the library it imports are choices of    *)
(* the model.  What indexing the distribution store does for a context     *)
(* with no distribution is fixed per run by the variable miss: "raise" (a  *)
(* lookup failure) or "insert" (a defaulting store, which builds a         *)
(* distribution from an empty frequency table with the estimator, stores   *)
(* it and returns it).  What ngrams(sequence, n) does for n < 1 is chosen  *)
(* in InitLevel.                                                           *)
(***************************************************************************)
EXTENDS Integers, Sequences, FiniteSets, TLC

VARIABLES pc, miss, args, train, level, models, result

vars == <<pc, miss, args, train, level, models, result>>

-----------------------------------------------------------------------------
(* Bounds of the model and the sets the inputs are drawn from.             *)

MaxOrder == 3

MaxTrainSize == 4

MaxNumWords == 2

MaxSeedLen == 1

MaxTextLen == 2

Tokens == {"a", "b"}

Pad == ""

Novel == "x"

Sentinel == "."

BSeq(S, n) == UNION {[1..k -> S] : k \in 0..n}

\* the lists of sentences of size s at most, the size of a list being the
\* number of its sentences and of their tokens together
RECURSIVE corporaOf(_)
corporaOf(s) ==
    IF s <= 0 THEN {<<>>}
    ELSE {<<>>} \cup UNION {{<<sent>> \o rest : rest \in corporaOf(s - 1 - Len(sent))}
                               : sent \in BSeq(Tokens, s - 1)}

Corpora == corporaOf(MaxTrainSize)

Flags == {"True", "False", "1"}

Estimators == {"mle", "lidstone"}

Words == Tokens \cup {Pad, Novel}

\* the contexts a model of order n is queried with: those of up to n-1
\* tokens, and those of n tokens (one more than it conditions on)
Contexts(n) == BSeq(Tokens \cup {Pad}, n - 1) \cup [1..n -> Tokens]

Seeds == BSeq(Tokens \cup {Pad}, MaxSeedLen)

Texts == BSeq(Tokens, MaxTextLen)

FlatTexts == Texts \ {<<>>}

-----------------------------------------------------------------------------
(* Python helpers.                                                         *)

IsBool(x) == x \in {"True", "False"}

Truthy(x) == x # "False"

Max(a, b) == IF a >= b THEN a ELSE b

Min(a, b) == IF a <= b THEN a ELSE b

\* s[1:]
Drop1(s) == IF s = <<>> THEN <<>> ELSE Tail(s)

\* s[:-1]
ButLast(s) == SubSeq(s, 1, Len(s) - 1)

\* s[start:] for a start that may be negative
sliceFrom(s, start) ==
    LET from == IF start < 0 THEN Max(0, Len(s) + start) ELSE Min(start, Len(s))
    IN SubSeq(s, from + 1, Len(s))

\* ('',) * k ; a non-positive k gives the empty tuple
Pads(k) == [i \in 1..k |-> Pad]

-----------------------------------------------------------------------------
(* The estimator's distribution objects.                                   *)

RECURSIVE fdTotal(_, _)
fdTotal(fd, S) ==
    IF S = {} THEN 0
    ELSE LET w == CHOOSE w \in S : TRUE IN fd[w] + fdTotal(fd, S \ {w})

\* dist.prob(word) as a fraction: the relative frequency (0 on an empty
\* table) for "mle", add-one smoothing over the table's own bins for
\* "lidstone".
distProb(dist, word) ==
    LET fd == dist.fdist
        N == fdTotal(fd, DOMAIN fd)
        B == Cardinality(DOMAIN fd)
        c == IF word \in DOMAIN fd THEN fd[word] ELSE 0
    IN IF dist.estimator = "mle"
       THEN (IF N = 0 THEN <<0, 1>> ELSE <<c, N>>)
       ELSE <<c + 1, N + B>>

\* the words dist.generate() can draw: the samples of the frequency table
distSamples(dist) == DOMAIN dist.fdist

-----------------------------------------------------------------------------
(* Construction: NgramModel.__init__                                       *)

lpadOf(n, pad_left) == IF Truthy(pad_left) THEN Pads(n - 1) ELSE <<>>

rpadOf(n, pad_right) == IF Truthy(pad_right) THEN Pads(n - 1) ELSE <<>>

\* ngrams(sequence, n) for n >= 1: the width-n windows, in order.
ngrams(sequence, n) ==
    [i \in 1..Max(0, Len(sequence) - n + 1) |-> SubSeq(sequence, i, i + n - 1)]

\* cfd[context][token] += 1 on a ConditionalFreqDist
cfdInc(cfd, context, token) ==
    IF context \notin DOMAIN cfd
    THEN cfd @@ (context :> (token :> 1))
    ELSE IF token \notin DOMAIN cfd[context]
         THEN [cfd EXCEPT ![context] = @ @@ (token :> 1)]
         ELSE [cfd EXCEPT ![context][token] = @ + 1]

\* the inner loop, for the windows grams[i..]
RECURSIVE scanNgrams(_, _, _)
scanNgrams(acc, grams, i) ==
    IF i > Len(grams) THEN acc
    ELSE LET ngram == grams[i]
             context == ButLast(ngram)
             token == ngram[Len(ngram)]
         IN scanNgrams([ngrams |-> acc.ngrams \cup {ngram},
                        cfd |-> cfdInc(acc.cfd, context, token)], grams, i + 1)

\* a plausible slip: one pass over the whole corpus, padded once
RECURSIVE joinSents(_, _)
joinSents(sents, j) == IF j > Len(sents) THEN <<>> ELSE sents[j] \o joinSents(sents, j + 1)

scanTrainJoined(acc, sents, j, n, lpad, rpad) ==
    IF sents = <<>> THEN acc
    ELSE scanNgrams(acc, ngrams(lpad \o joinSents(sents, 1) \o rpad, n), 1)

\* the outer loop, for the sentences sents[j..]
RECURSIVE scanTrain(_, _, _, _, _, _)
scanTrain(acc, sents, j, n, lpad, rpad) ==
    IF j > Len(sents) THEN acc
    ELSE scanTrain(scanNgrams(acc, ngrams(lpad \o sents[j] \o rpad, n), 1),
                   sents, j + 1, n, lpad, rpad)

\* train = [train] when train[0] is a str
wrapTrain(t) ==
    IF t.kind = "flat" THEN [kind |-> "nested", toks |-> <<>>, sents |-> <<t.toks>>]
    ELSE t

\* ConditionalProbDist(cfd, estimator, len(cfd)): one distribution per condition
condProbDist(cfd, estimator) ==
    [c \in DOMAIN cfd |-> [estimator |-> estimator, fdist |-> cfd[c]]]

\* The object after lines 86-112 of __init__ for an order n >= 1; _backoff
\* is set (linkBackoff) when the constructor of the lower order returns.
initBody(n, t, pad_left, pad_right, estimator) ==
    LET lpad == lpadOf(n, pad_left)
        rpad == rpadOf(n, pad_right)
        acc == scanTrain([ngrams |-> {}, cfd |-> <<>>], t.sents, 1, n, lpad, rpad)
    IN [n |-> n, lpad |-> lpad, rpad |-> rpad, ngrams |-> acc.ngrams,
        model |-> condProbDist(acc.cfd, estimator), estimator |-> estimator,
        backoff |-> 0]

\* The exception lines 83-102 of __init__ raise, or "ok".
initError(t, pad_left, pad_right) ==
    IF ~IsBool(pad_left) \/ ~IsBool(pad_right) THEN "AssertionError"
    ELSE IF t.kind = "nested" /\ t.sents = <<>> THEN "IndexError"
    ELSE IF t.kind = "none" THEN "TypeError"
    ELSE "ok"

\* self._backoff = NgramModel(n-1, ...) at every order above 1
linkBackoff(ms) ==
    [k \in DOMAIN ms |-> [ms[k] EXCEPT !.backoff = IF k > 1 THEN k - 1 ELSE 0]]

-----------------------------------------------------------------------------
(* Introspection: __contains__ and __getitem__                             *)

\* tuple(item) in self._model
contains(m, item) == item \in DOMAIN m.model

\* self._model[tuple(item)] on the model m: the distribution and the store
\* after the call, or the exception.  A context with no distribution is a
\* lookup failure, or (a defaulting store) gets the estimator's distribution
\* for an empty frequency table, which "lidstone" refuses to build.
getitem(m, item, onMiss) ==
    IF item \in DOMAIN m.model
    THEN [status |-> "ok", dist |-> m.model[item], model |-> m.model]
    ELSE LET d == [estimator |-> m.estimator, fdist |-> <<>>]
         IN IF onMiss = "raise"
            THEN [status |-> "LookupFailure", dist |-> d, model |-> m.model]
            ELSE IF m.estimator = "lidstone"
            THEN [status |-> "ValueError", dist |-> d, model |-> m.model]
            ELSE [status |-> "ok", dist |-> d, model |-> m.model @@ (item :> d)]

-----------------------------------------------------------------------------
(* prob                                                                    *)

\* a plausible slip: the weight upside down
alphaInverted(n) == <<n, n - 1>>

\* a plausible slip: one weight for every order
alphaHalf(n) == <<1, 2>>

\* alpha = float(self._n - 1) / self._n
alpha(n) == <<n - 1, n>>

\* The call self.prob(word, context) on the model of order n of the chain
\* ms: the returned fraction or the exception, and the chain after the call.
\* calls counts the nested backoff calls; order, index and hit are the order
\* and the context of the one index operation and whether that context had a
\* distribution.
RECURSIVE prob(_, _, _, _, _)
prob(ms, n, word, context, onMiss) ==
    LET m == ms[n] IN
    IF Append(context, word) \in m.ngrams \/ n = 1
    THEN LET g == getitem(m, context, onMiss)
             p == distProb(g.dist, word)
         IN [status |-> g.status,
             num |-> IF g.status = "ok" THEN p[1] ELSE 0,
             den |-> IF g.status = "ok" THEN p[2] ELSE 1,
             calls |-> 0, order |-> n, index |-> context,
             hit |-> contains(m, context),
             ms |-> [ms EXCEPT ![n].model = g.model]]
    ELSE LET a == alpha(n)
             r == prob(ms, m.backoff, word, Drop1(context), onMiss)
         IN [r EXCEPT !.num = a[1] * @, !.den = a[2] * @, !.calls = @ + 1]

-----------------------------------------------------------------------------
(* generate                                                                *)

\* The call self._generate_one(context) on the model of order n: the set of
\* the possible draws, each with the order and the context it was drawn at
\* (order 0: the sentinel, drawn from no distribution).
RECURSIVE generateOne(_, _, _)
generateOne(ms, n, context) ==
    LET m == ms[n]
        c == sliceFrom(m.lpad \o context, -n + 1)
    IN IF contains(m, c)
       THEN {[token |-> w, order |-> n, index |-> c] : w \in distSamples(m.model[c])}
       ELSE IF n > 1 THEN generateOne(ms, m.backoff, Drop1(c))
       ELSE {[token |-> Sentinel, order |-> 0, index |-> c]}

\* a plausible slip: every word is drawn for the seed, not for the text so far
RECURSIVE generateLoopStale(_, _, _, _, _)
generateLoopStale(ms, n, k, text, draws) ==
    IF k = 0 THEN {[text |-> text, draws |-> draws]}
    ELSE UNION {generateLoopStale(ms, n, k - 1, Append(text, d.token), Append(draws, d))
                  : d \in generateOne(ms, n, SubSeq(text, 1, Len(text) - Len(draws)))}

\* The loop of generate with k words to go: the possible runs, each the
\* final text with the draws made.
RECURSIVE generateLoop(_, _, _, _, _)
generateLoop(ms, n, k, text, draws) ==
    IF k = 0 THEN {[text |-> text, draws |-> draws]}
    ELSE UNION {generateLoop(ms, n, k - 1, Append(text, d.token), Append(draws, d))
                  : d \in generateOne(ms, n, text)}

-----------------------------------------------------------------------------
(* entropy                                                                 *)

\* The loop of entropy over the padded text from the (0-based) position i:
\* the probabilities whose logprob is summed into e, or the first exception,
\* and the chain after the calls.
RECURSIVE entropyLoop(_, _, _, _, _, _)
entropyLoop(ms, n, text, i, acc, onMiss) ==
    IF i >= Len(text) THEN [status |-> "ok", terms |-> acc, ms |-> ms]
    ELSE LET context == SubSeq(text, i - n + 2, i)
             token == text[i + 1]
             p == prob(ms, n, token, context, onMiss)
         IN IF p.status # "ok" THEN [status |-> p.status, terms |-> acc, ms |-> p.ms]
            ELSE entropyLoop(p.ms, n, text, i + 1, Append(acc, <<p.num, p.den>>), onMiss)

\* The call self.entropy(text) on the model of order n: e (as the terms
\* summed) and the divisor len(text) - (n-1), or the exception.
entropy(ms, n, text, onMiss) ==
    LET m == ms[n]
        padded == m.lpad \o text \o m.rpad
        e == entropyLoop(ms, n, padded, n - 1, <<>>, onMiss)
        count == Len(padded) - (n - 1)
        status == IF e.status # "ok" THEN e.status
                  ELSE IF count = 0 THEN "ZeroDivisionError"
                  ELSE "ok"
    IN [status |-> status, terms |-> e.terms, count |-> count,
        padded |-> Len(padded), ms |-> e.ms]

-----------------------------------------------------------------------------
(* The state machine: a construction, then queries on the constructed      *)
(* model.  pc is "idle" before the constructor is called, "init" while the *)
(* constructors of the chain run (level is the order of the one running    *)
(* and train its training argument), "failed" when one has raised,         *)
(* "returned" when a call has returned (result holds what it returned) and *)
(* "ready" between calls.                                                  *)

NoArgs ==
    [n |-> 0, train |-> [kind |-> "none", toks |-> <<>>, sents |-> <<>>],
     pad_left |-> "False", pad_right |-> "False", estimator |-> "mle"]

Init ==
    /\ pc = "idle"
    /\ miss \in {"raise", "insert"}
    /\ args = NoArgs
    /\ train = NoArgs.train
    /\ level = 0
    /\ models = <<>>
    /\ result = [op |-> "none"]

\* The call NgramModel(n, t, pad_left, pad_right, estimator).
New(n, t, pad_left, pad_right, estimator) ==
    /\ pc = "idle"
    /\ pc' = "init"
    /\ args' = [n |-> n, train |-> t, pad_left |-> pad_left, pad_right |-> pad_right,
                estimator |-> estimator]
    /\ train' = t
    /\ level' = n
    /\ UNCHANGED <<miss, models, result>>

\* One run of the body of __init__, for the order `level`: it raises, or
\* builds the object of that order and goes on to the next lower order, or
\* (at order 1) returns up the chain.
InitLevel ==
    /\ pc = "init"
    /\ LET err == initError(train, args.pad_left, args.pad_right)
           t == wrapTrain(train)
       IN \/ /\ err # "ok"
             /\ pc' = "failed"
             /\ result' = [op |-> "__init__", status |-> err]
             /\ UNCHANGED <<train, level, models>>
          \/ /\ err = "ok"
             /\ level > 1
             /\ train' = t
             /\ models' = models @@ (level :>
                   initBody(level, t, args.pad_left, args.pad_right, args.estimator))
             /\ level' = level - 1
             /\ UNCHANGED <<pc, result>>
          \/ /\ err = "ok"
             /\ level = 1
             /\ train' = t
             /\ models' = linkBackoff(models @@ (level :>
                   initBody(level, t, args.pad_left, args.pad_right, args.estimator)))
             /\ pc' = "returned"
             /\ result' = [op |-> "__init__", status |-> "ok"]
             /\ UNCHANGED level
          \* ngrams(sequence, n) for n < 1 is outside the library's contract:
          \* the loop raises on its first window (a window of no token has no
          \* last token), or gets no window at all and the object is built.
          \/ /\ err = "ok"
             /\ level < 1
             /\ train' = t
             /\ \/ /\ pc' = "failed"
                   /\ result' = [op |-> "__init__", status |-> "IndexError"]
                   /\ UNCHANGED <<level, models>>
                \/ /\ pc' = "returned"
                   /\ models' = models @@ (level :>
                         [n |-> level, lpad |-> lpadOf(level, args.pad_left),
                          rpad |-> rpadOf(level, args.pad_right), ngrams |-> {},
                          model |-> <<>>, estimator |-> args.estimator, backoff |-> 0])
                   /\ result' = [op |-> "__init__", status |-> "ok"]
                   /\ UNCHANGED level
    /\ UNCHANGED <<miss, args>>

\* The caller takes the returned value and is free to make the next call.  A
\* run is followed up to its first call that changes the chain.
Return ==
    /\ pc = "returned"
    /\ args.n >= 1
    /\ result.op # "__init__" => ~result.changed
    /\ pc' = "ready"
    /\ result' = [op |-> "none"]
    /\ UNCHANGED <<miss, args, train, level, models>>

Prob(word, context) ==
    /\ pc = "ready"
    /\ LET r == prob(models, args.n, word, context, miss)
       IN /\ result' = [op |-> "prob", word |-> word, context |-> context,
                        ret |-> [status |-> r.status, num |-> r.num, den |-> r.den,
                                 calls |-> r.calls, order |-> r.order,
                                 index |-> r.index, hit |-> r.hit],
                        changed |-> (r.ms # models)]
          /\ models' = r.ms
    /\ pc' = "returned"
    /\ UNCHANGED <<miss, args, train, level>>

\* -safe_log(self.prob(word, context), 2): 0.0 for a probability of 0, and
\* otherwise minus the logarithm of the fraction `of`.
Logprob(word, context) ==
    /\ pc = "ready"
    /\ LET r == prob(models, args.n, word, context, miss)
       IN /\ result' = [op |-> "logprob", word |-> word, context |-> context,
                        status |-> r.status,
                        zero |-> (r.status = "ok" /\ r.num = 0),
                        of |-> <<r.num, r.den>>,
                        changed |-> (r.ms # models)]
          /\ models' = r.ms
    /\ pc' = "returned"
    /\ UNCHANGED <<miss, args, train, level>>

Generate(num_words, context) ==
    /\ pc = "ready"
    /\ \E run \in generateLoop(models, args.n, num_words, context, <<>>) :
          result' = [op |-> "generate", num_words |-> num_words, context |-> context,
                     text |-> run.text, draws |-> run.draws, changed |-> FALSE]
    /\ pc' = "returned"
    /\ UNCHANGED <<miss, args, train, level, models>>

\* self.generate(1, context)[-1]
ChooseRandomWord(context) ==
    /\ pc = "ready"
    /\ \E run \in generateLoop(models, args.n, 1, context, <<>>) :
          result' = [op |-> "choose_random_word", context |-> context,
                     text |-> run.text, draws |-> run.draws,
                     ret |-> run.text[Len(run.text)], changed |-> FALSE]
    /\ pc' = "returned"
    /\ UNCHANGED <<miss, args, train, level, models>>

Entropy(text) ==
    /\ pc = "ready"
    /\ LET r == entropy(models, args.n, text, miss)
       IN /\ result' = [op |-> "entropy", text |-> text,
                        ret |-> [status |-> r.status, terms |-> r.terms,
                                 count |-> r.count, padded |-> r.padded],
                        changed |-> (r.ms # models)]
          /\ models' = r.ms
    /\ pc' = "returned"
    /\ UNCHANGED <<miss, args, train, level>>

\* pow(2.0, self.entropy(text))
Perplexity(text) ==
    /\ pc = "ready"
    /\ LET r == entropy(models, args.n, text, miss)
       IN /\ result' = [op |-> "perplexity", text |-> text,
                        exponent |-> [status |-> r.status, terms |-> r.terms,
                                      count |-> r.count, padded |-> r.padded],
                        changed |-> (r.ms # models)]
          /\ models' = r.ms
    /\ pc' = "returned"
    /\ UNCHANGED <<miss, args, train, level>>

Contains(item) ==
    /\ pc = "ready"
    /\ result' = [op |-> "__contains__", item |-> item,
                  ret |-> contains(models[args.n], item), changed |-> FALSE]
    /\ pc' = "returned"
    /\ UNCHANGED <<miss, args, train, level, models>>

GetItem(item) ==
    /\ pc = "ready"
    /\ LET g == getitem(models[args.n], item, miss)
       IN /\ result' = [op |-> "__getitem__", item |-> item, status |-> g.status,
                        changed |-> (g.model # models[args.n].model)]
          /\ models' = [models EXCEPT ![args.n].model = g.model]
    /\ pc' = "returned"
    /\ UNCHANGED <<miss, args, train, level>>

Construct ==
    \/ /\ pc = "idle"
       /\ \E n \in 0..MaxOrder, pl \in Flags, pr \in Flags, est \in Estimators :
             \/ New(n, NoArgs.train, pl, pr, est)
             \/ \E toks \in FlatTexts :
                   New(n, [kind |-> "flat", toks |-> toks, sents |-> <<>>], pl, pr, est)
             \/ \E sents \in Corpora :
                   New(n, [kind |-> "nested", toks |-> <<>>, sents |-> sents], pl, pr, est)
    \/ InitLevel
    \/ Return

ProbCalls == pc = "ready" /\ \E w \in Words, c \in Contexts(args.n) : Prob(w, c)

GenerateCalls ==
    /\ pc = "ready"
    /\ \/ \E k \in 0..MaxNumWords, c \in Seeds : Generate(k, c)
       \/ \E c \in Seeds : ChooseRandomWord(c)

EvalCalls ==
    /\ pc = "ready"
    /\ \/ \E w \in Words, c \in Contexts(args.n) : Logprob(w, c)
       \/ \E t \in Texts : Entropy(t)
       \/ \E t \in Texts : Perplexity(t)

IndexCalls ==
    /\ pc = "ready"
    /\ \/ \E c \in Contexts(args.n) : Contains(c)
       \/ \E c \in Contexts(args.n) : GetItem(c)

Next == Construct \/ ProbCalls \/ GenerateCalls \/ EvalCalls \/ IndexCalls

Spec == Init /\ [][Next]_vars

\* construction alone
NextInit == Construct

SpecInit == Init /\ [][NextInit]_vars

\* construction and prob
NextProb == Construct \/ ProbCalls

SpecProb == Init /\ [][NextProb]_vars

\* construction and generation
NextGenerate == Construct \/ GenerateCalls

SpecGenerate == Init /\ [][NextGenerate]_vars

\* construction and evaluation
NextEval == Construct \/ EvalCalls

SpecEval == Init /\ [][NextEval]_vars

-----------------------------------------------------------------------------
(* The properties checked.                                                 *)

\* the sentences of the training argument, as the constructor takes them
sentencesOf(t) ==
    IF t.kind = "flat" THEN {t.toks}
    ELSE {t.sents[i] : i \in 1..Len(t.sents)}

\* the training data holds at least one token
TrainHasToken == \E s \in sentencesOf(args.train) : s # <<>>

\* the last m tokens of a context of at least m tokens
lastTokens(c, m) == SubSeq(c, Len(c) - m + 1, Len(c))

\* the width-k windows of each sentence, padded on its own as the flags say
windowsOf(k) ==
    LET l == IF args.pad_left = "True" THEN Pads(k - 1) ELSE <<>>
        r == IF args.pad_right = "True" THEN Pads(k - 1) ELSE <<>>
    IN UNION {{SubSeq(l \o s \o r, i, i + k - 1) : i \in 1..(Len(l \o s \o r) - k + 1)}
                : s \in sentencesOf(args.train)}

ProbReturned == pc = "returned" /\ result.op = "prob"

GenerateReturned == pc = "returned" /\ result.op = "generate"

\* C1: on a model built from training data with a token, prob(w, c) makes at
\* most k-1 nested backoff calls, indexes a model of order >= 1 and returns
\* a non-negative finite probability: it never raises at the order-1 base
\* case, whatever the word and the context.
C1_ProbAlwaysReturns ==
    (ProbReturned /\ TrainHasToken) =>
        /\ result.ret.calls <= args.n - 1
        /\ result.ret.order >= 1
        /\ result.ret.status = "ok"
        /\ result.ret.num >= 0
        /\ result.ret.den > 0

\* C2: a value prob(w, c) returns lies in [0, 1], whether it comes from the
\* order-k distribution or from backoff steps scaled by alpha.
C2_ProbWithinUnit ==
    (ProbReturned /\ result.ret.status = "ok") =>
        /\ result.ret.den > 0
        /\ 0 <= result.ret.num
        /\ result.ret.num <= result.ret.den

\* C2: prob has returned a positive value after two backoff steps
C2_Witness ==
    /\ ProbReturned
    /\ result.ret.status = "ok"
    /\ result.ret.calls = 2
    /\ result.ret.num > 0

\* the configurations the constructor is to reject: a padding flag that is
\* not a bool, an order below 1, no training data (None or an empty list)
InvalidConfig ==
    \/ ~IsBool(args.pad_left)
    \/ ~IsBool(args.pad_right)
    \/ args.n < 1
    \/ args.train.kind = "none"
    \/ (args.train.kind = "nested" /\ args.train.sents = <<>>)

\* C3: a construction called with an invalid configuration ends in a
\* failure, before any model of the chain has been built.
C3_InvalidConfigFails ==
    (pc # "idle" /\ InvalidConfig) =>
        /\ pc \in {"init", "failed"}
        /\ models = <<>>

\* C4: entropy(text) on a text whose padded length is at most k-1 raises: it
\* never returns a number.
C4_DegenerateEntropyRejected ==
    (pc = "returned" /\ result.op = "entropy" /\ result.ret.padded <= args.n - 1) =>
        result.ret.status # "ok"

\* C5: generate(numWords, context) returns the seed followed by numWords
\* tokens, the i-th a possible result of _generate_one on the seed and the
\* i-1 tokens before it; choose_random_word(context) returns the one token
\* generate(1, context) appends.
C5_GenerateAppends ==
    /\ GenerateReturned =>
          LET seed == Len(result.context) IN
          /\ Len(result.text) = seed + result.num_words
          /\ SubSeq(result.text, 1, seed) = result.context
          /\ \A i \in 1..result.num_words :
                result.text[seed + i] \in
                    {d.token : d \in generateOne(models, args.n,
                                                 SubSeq(result.text, 1, seed + i - 1))}
    /\ (pc = "returned" /\ result.op = "choose_random_word") =>
          /\ Len(result.text) = Len(result.context) + 1
          /\ SubSeq(result.text, 1, Len(result.context)) = result.context
          /\ result.ret = result.text[Len(result.context) + 1]
          /\ result.ret \in {d.token : d \in generateOne(models, args.n, result.context)}

\* C5: generate has appended two words to a seed, the second drawn at
\* another context than the first
C5_Witness ==
    /\ GenerateReturned
    /\ result.num_words = 2
    /\ result.context # <<>>
    /\ result.draws[1].order >= 1
    /\ result.draws[2].order >= 1
    /\ result.draws[1].index # result.draws[2].index

\* C6: once construction has returned, no call changes the stored state of
\* any model of the chain.
C6_QueriesChangeNothing ==
    [][(pc \in {"ready", "returned"}) => (models' = models)]_vars

\* C7: after construction, at every order k of the chain the observed
\* n-grams are the width-k windows of each sentence padded on its own, and a
\* context has a distribution iff an observed n-gram starts with it.
C7_ContextsAreObserved ==
    (pc \in {"returned", "ready"} /\ args.n >= 1) =>
        \A k \in 1..args.n :
            /\ k \in DOMAIN models
            /\ models[k].n = k
            /\ models[k].ngrams = windowsOf(k)
            /\ DOMAIN models[k].model = {ButLast(g) : g \in models[k].ngrams}

\* C7: a chain of order 3 built from two sentences of which neither alone
\* has a window of width 3 without padding
C7_Witness ==
    /\ pc = "returned"
    /\ args.n = 3
    /\ args.train.kind = "nested"
    /\ Len(args.train.sents) = 2
    /\ \A i \in 1..2 : Len(args.train.sents[i]) \in 1..2
    /\ args.pad_left = "False"
    /\ args.pad_right = "False"
    /\ models[1].model # <<>>

\* C8: on a model built from training data with a token, neither prob nor
\* _generate_one indexes the distribution store of any order with a context
\* that has no distribution there.
C8_IndexOnlyObserved ==
    (pc = "returned" /\ TrainHasToken) =>
        /\ result.op = "prob" => result.ret.hit
        /\ result.op \in {"generate", "choose_random_word"} =>
              \A i \in 1..Len(result.draws) :
                  result.draws[i].order >= 1 =>
                      contains(models[result.draws[i].order], result.draws[i].index)

\* C9: on a model of any order k >= 1 built from training data with a token,
\* every token generate appends is drawn from a stored distribution, at a
\* context of the drawing order's k-1 tokens at most: the sentinel is never
\* produced.
C9_NeverSentinel ==
    (GenerateReturned /\ TrainHasToken) =>
        \A i \in 1..Len(result.draws) :
            /\ result.draws[i].order >= 1
            /\ Len(result.draws[i].index) <= result.draws[i].order - 1

\* C10: for a context of k-1 tokens, prob(w, c) is (j/k) * P_j(w | the last
\* j-1 tokens of c), j the largest order at which those tokens followed by w
\* are an observed j-gram (1 when there is none): k-j backoff calls are made,
\* none when the k-gram was observed.
C10_ProbIsTelescoped ==
    (ProbReturned /\ Len(result.context) = args.n - 1) =>
        LET k == args.n
            c == result.context
            obs == {i \in 1..k : Append(lastTokens(c, i - 1), result.word) \in models[i].ngrams}
            j == IF obs = {} THEN 1 ELSE CHOOSE i \in obs : \A h \in obs : h <= i
            cj == lastTokens(c, j - 1)
        IN /\ result.ret.calls = k - j
           /\ result.ret.order = j
           /\ result.ret.index = cj
           /\ result.ret.hit =>
                 LET P == distProb(models[j].model[cj], result.word)
                 IN /\ result.ret.status = "ok"
                    /\ result.ret.num * (k * P[2]) = result.ret.den * (j * P[1])

\* C10: prob has backed off from order 3 to order 1 and returned a positive
\* value
C10_Witness ==
    /\ ProbReturned
    /\ args.n = 3
    /\ Len(result.context) = 2
    /\ result.ret.calls = 2
    /\ result.ret.hit
    /\ result.ret.num > 0

====
